---- MODULE Spec2Model ----
(***************************************************************************)
(* Model of src/app.py: a Flask application that stores uploaded images in *)
(* static/uploads, captions them with a BLIP model and answers questions   *)
(* about them with a VQA pipeline.                                         *)
(*                                                                         *)
(* Strings that the code computes with (file names, paths, URLs) are       *)
(* sequences of characters, so that secure_filename, os.path.join and      *)
(* str.split are computed, not assumed.  Fixed message                     *)
(* texts are TLA+ strings.  File contents are sequences of chunks, one     *)
(* chunk per write() that FileStorage.save issues.                         *)
(*                                                                         *)
(* Requests are served by threads (werkzeug's development server is        *)
(* threaded), so a handler is split at every access to the shared upload   *)
(* directory: opening the destination, each chunk written, and the read    *)
(* that generate_caption does.                                             *)
(***************************************************************************)
EXTENDS Naturals, Sequences, FiniteSets, TLC

\* ------------------------------------------------------------------ bounds
NumThreads == 2
NumChunks == 2
MaxNameLen == 3
MaxFiles == 1

Threads == 1..NumThreads

\* Characters a client can put in a file name: an alphanumeric, the path
\* separator, the dot, whitespace and an ASCII character outside [A-Za-z0-9_.-].
Alphabet == {"a", "/", ".", " ", "!"}

RECURSIVE StringsUpTo(_)
StringsUpTo(n) ==
    IF n = 0 THEN {<<>>}
    ELSE LET shorter == StringsUpTo(n - 1)
         IN  shorter \cup {Append(s, c) : s \in {x \in shorter : Len(x) = n - 1}, c \in Alphabet}

OrigNames == StringsUpTo(MaxNameLen)

\* Chunks of uploaded data: "p" is a chunk of a decodable image, "x" is a
\* chunk of a file that is no image; "0" is the zero fill of a hole that a
\* write beyond the end of a truncated file leaves.
ImageBytes == {"p"}
Bytes == ImageBytes \cup {"x"}
Hole == "0"

DataSet == {[i \in 1..NumChunks |-> b] : b \in Bytes}

Questions == {"what colour"}

\* ------------------------------------------------------- string functions
\* 'static/uploads' and the f-string prefix "/static/uploads/": the words
\* static and uploads, which hold no separator, are one element each.
UPLOAD_FOLDER == <<"static", "/", "uploads">>

UrlPrefix == <<"/", "static", "/", "uploads", "/">>

AllowedChars == {"a", "_", ".", "-"}

IsAllowedChar(c) == c \in AllowedChars

ReplaceSeparators(s) == [i \in 1..Len(s) |-> IF s[i] = "/" THEN " " ELSE s[i]]

RECURSIVE SplitAcc(_, _, _)
SplitAcc(s, cur, acc) ==
    IF s = <<>> THEN (IF cur = <<>> THEN acc ELSE Append(acc, cur))
    ELSE IF Head(s) = " "
         THEN SplitAcc(Tail(s), <<>>, IF cur = <<>> THEN acc ELSE Append(acc, cur))
         ELSE SplitAcc(Tail(s), Append(cur, Head(s)), acc)

SplitWhitespace(s) == SplitAcc(s, <<>>, <<>>)

RECURSIVE JoinUnderscore(_)
JoinUnderscore(tokens) ==
    IF tokens = <<>> THEN <<>>
    ELSE IF Len(tokens) = 1 THEN tokens[1]
    ELSE tokens[1] \o <<"_">> \o JoinUnderscore(Tail(tokens))

RECURSIVE LStrip(_)
LStrip(s) == IF s # <<>> /\ Head(s) \in {".", "_"} THEN LStrip(Tail(s)) ELSE s

RECURSIVE RStrip(_)
RStrip(s) ==
    IF s # <<>> /\ s[Len(s)] \in {".", "_"} THEN RStrip(SubSeq(s, 1, Len(s) - 1)) ELSE s

\* The file name as the client sent it, unsanitized.
raw_filename(filename) == filename

secure_filename(filename) ==
    LET spaced == ReplaceSeparators(filename)
        joined == JoinUnderscore(SplitWhitespace(spaced))
        kept   == SelectSeq(joined, IsAllowedChar)
    IN  RStrip(LStrip(kept))

\* secure_filename tabulated over the names a client sends in this model.
Sanitized == [o \in OrigNames |-> secure_filename(o)]

path_join(a, b) ==
    IF b # <<>> /\ Head(b) = "/" THEN b
    ELSE IF a = <<>> \/ a[Len(a)] = "/" THEN a \o b
    ELSE a \o <<"/">> \o b

RECURSIVE LastSegment(_)
LastSegment(s) ==
    IF s = <<>> THEN <<>>
    ELSE IF s[Len(s)] = "/" THEN <<>>
    ELSE Append(LastSegment(SubSeq(s, 1, Len(s) - 1)), s[Len(s)])

UploadUrl(filename) == UrlPrefix \o filename

AnswerPath(image_url) == path_join(UPLOAD_FOLDER, LastSegment(image_url))

\* static/uploads exists as a directory (os.makedirs at startup); these paths
\* name it or its parent.
IsDirectory(path) ==
    path \in {UPLOAD_FOLDER, UPLOAD_FOLDER \o <<"/">>, UPLOAD_FOLDER \o <<"/", ".">>,
              UPLOAD_FOLDER \o <<"/", ".", ".">>}

IsImage(content) == content # <<>> /\ content[1] \in ImageBytes

\* ------------------------------------------------------------ model calls
ErrCaption == <<"Error generating caption.">>
ErrAnswer == <<"Error answering question.">>
NoAnswer == <<"No answer found.">>

CaptionOutcomes == {"ok", "raise"}
VqaOutcomes == {"ok", "empty", "raise"}

NoCall ==
    [made |-> FALSE, raised |-> FALSE, failure |-> "none", value |-> <<>>, invoked |-> {}]

Raised(exc, invoked) ==
    [made |-> TRUE, raised |-> TRUE, failure |-> exc, value |-> <<>>, invoked |-> invoked]

Returned(value, invoked) ==
    [made |-> TRUE, raised |-> FALSE, failure |-> "none", value |-> value,
     invoked |-> invoked]

\* Image.open(image_path).convert("RGB"): the exception it raises, or "none".
OpenFailure(image_path, files) ==
    IF IsDirectory(image_path) THEN "IsADirectoryError"
    ELSE IF image_path \notin DOMAIN files THEN "FileNotFoundError"
    ELSE IF ~IsImage(files[image_path]) THEN "UnidentifiedImageError"
    ELSE "none"

\* The statements inside generate_caption's try block.
CaptionBody(image_path, files, g, out) ==
    IF OpenFailure(image_path, files) # "none"
    THEN Raised(OpenFailure(image_path, files), {})
    ELSE IF "caption_processor" \notin g THEN Raised("NameError", {})
    ELSE IF "caption_model" \notin g THEN Raised("NameError", {"caption_processor"})
    ELSE IF out = "raise" THEN Raised("ModelError", {"caption_processor", "caption_model"})
    ELSE Returned(<<"caption of", files[image_path]>>, {"caption_processor", "caption_model"})

\* generate_caption with the except clause left out.
generate_caption_uncaught(image_path, files, g, out) == CaptionBody(image_path, files, g, out)

generate_caption(image_path, files, g, out) ==
    LET r == CaptionBody(image_path, files, g, out)
    IN  IF r.raised THEN [r EXCEPT !.raised = FALSE, !.value = ErrCaption] ELSE r

\* The statements inside answer_question_pipeline's try block.
AnswerBody(image_path, question, files, g, out) ==
    IF OpenFailure(image_path, files) # "none"
    THEN Raised(OpenFailure(image_path, files), {})
    ELSE IF "vqa_pipeline" \notin g THEN Raised("NameError", {})
    ELSE IF out = "raise" THEN Raised("ModelError", {"vqa_pipeline"})
    ELSE IF out = "empty" THEN Returned(NoAnswer, {"vqa_pipeline"})
    ELSE Returned(<<"answer to", question>>, {"vqa_pipeline"})

answer_question_pipeline(image_path, question, files, g, out) ==
    LET r == AnswerBody(image_path, question, files, g, out)
    IN  IF r.raised THEN [r EXCEPT !.raised = FALSE, !.value = ErrAnswer] ELSE r

\* ------------------------------------------------------------------ state
VARIABLES
    globals,    \* the module-level names that startup bound
    fs,         \* the files under static/uploads: path -> content
    th,         \* per serving thread: the request in progress and its response
    lastSaved,  \* history: path -> the data of the save that completed last
    watch       \* history: an /answer submission that was answered with 200

vars == <<globals, fs, th, lastSaved, watch>>

AllGlobals == {"caption_model", "caption_processor", "use_pipeline", "vqa_pipeline"}

\* The names bound when the try block at startup stops at the given load.
GlobalsAfterStartup(failing) ==
    CASE failing = "caption_model" -> {}
      [] failing = "caption_processor" -> {"caption_model"}
      [] failing = "vqa_pipeline" -> {"caption_model", "caption_processor", "use_pipeline"}
      [] OTHER -> AllGlobals

StartupFailures == {"none", "caption_model", "caption_processor", "vqa_pipeline"}

NoResp == [status |-> 0, body |-> [none |-> TRUE]]

Idle ==
    [pc |-> "idle", kind |-> "none", has |-> {}, image |-> <<>>, question |-> "",
     filename |-> <<>>, path |-> <<>>, data |-> <<>>, off |-> 0,
     call |-> NoCall, resp |-> NoResp]

NoWatch == [set |-> FALSE, image |-> <<>>, question |-> "", answer |-> <<>>]

\* The state when the server starts to serve, after a startup that stopped at
\* one of the given loads (or at none).
Started(failures) ==
    /\ globals \in {GlobalsAfterStartup(f) : f \in failures}
    /\ fs = [p \in {} |-> <<>>]
    /\ th = [t \in Threads |-> Idle]
    /\ lastSaved = [p \in {} |-> <<>>]
    /\ watch = NoWatch

Init == Started(StartupFailures)

\* ---------------------------------------------------------------- actions
Max(a, b) == IF a >= b THEN a ELSE b

\* open(dst, "wb"): creates the file or truncates it to no content.
Truncated(files, path) ==
    [p \in DOMAIN files \cup {path} |-> IF p = path THEN <<>> ELSE files[p]]

\* write() of one chunk at the writer's own offset (the file is not opened
\* for append): a write past the end leaves a hole before it.
WriteAt(content, i, b) ==
    [k \in 1..Max(Len(content), i) |->
        IF k = i THEN b ELSE IF k <= Len(content) THEN content[k] ELSE Hole]

\* The handler returns: the request's fields, the helper call it made and
\* its response stay to be seen until the thread ends.
Done(t, kind, has, fields, call, resp) ==
    [th EXCEPT ![t] = [fields EXCEPT !.pc = "done", !.kind = kind, !.has = has,
                                     !.call = call, !.resp = resp]]

MissingImageUnchecked(has) == FALSE

MissingImage(has) == "image" \notin has

MissingAnswerInputBoth(has) == "image" \notin has /\ "question" \notin has

MissingAnswerInput(has) == "image" \notin has \/ "question" \notin has

NoImageResponse == [status |-> 400, body |-> [error |-> "No image uploaded"]]

NoInputResponse == [status |-> 400, body |-> [error |-> "No image or question provided"]]

Fault(exc) == [status |-> 500, body |-> [fault |-> exc]]

\* The server starts a thread for each request: a request takes the first
\* slot that serves none.
Free(t) == th[t].pc = "idle" /\ \A u \in 1..(t - 1) : th[u].pc # "idle"

\* upload_image up to the open() inside image.save.
UploadStart(t, has, orig, data) ==
    /\ Free(t)
    /\ IF MissingImage(has)
       THEN /\ th' = Done(t, "upload", has, Idle, NoCall, NoImageResponse)
            /\ UNCHANGED fs
       ELSE LET filename == Sanitized[orig]
                image_path == path_join(UPLOAD_FOLDER, filename)
                mine == [Idle EXCEPT !.filename = filename, !.path = image_path,
                                     !.data = data]
            IN  IF IsDirectory(image_path)
                THEN /\ th' = Done(t, "upload", has, [mine EXCEPT !.data = <<>>], NoCall,
                                    Fault("IsADirectoryError"))
                     /\ UNCHANGED fs
                ELSE /\ th' = [th EXCEPT ![t] = [mine EXCEPT !.pc = "save",
                                                     !.kind = "upload", !.has = has]]
                     /\ fs' = Truncated(fs, image_path)
    /\ UNCHANGED <<globals, lastSaved, watch>>

\* image.save: copyfileobj writes the next chunk.
UploadWrite(t) ==
    /\ th[t].pc = "save"
    /\ th[t].off < Len(th[t].data)
    /\ LET i == th[t].off + 1
           last == i = Len(th[t].data)
       IN  /\ fs' = [fs EXCEPT ![th[t].path] = WriteAt(@, i, th[t].data[i])]
           /\ th' = [th EXCEPT ![t].off = i, ![t].pc = IF last THEN "caption" ELSE "save"]
           /\ lastSaved' =
                IF last
                THEN [p \in DOMAIN lastSaved \cup {th[t].path} |->
                        IF p = th[t].path THEN th[t].data ELSE lastSaved[p]]
                ELSE lastSaved
    /\ UNCHANGED <<globals, watch>>

\* upload_image from generate_caption(image_path) to the response.
UploadCaption(t, out) ==
    /\ th[t].pc = "caption"
    /\ LET call == generate_caption(th[t].path, fs, globals, out)
           resp == IF call.raised THEN Fault(call.failure)
                   ELSE [status |-> 200,
                         body |-> [image_url |-> UploadUrl(th[t].filename),
                                   caption |-> call.value]]
       IN  th' = Done(t, "upload", th[t].has, [th[t] EXCEPT !.data = <<>>, !.off = 0],
                      call, resp)
    /\ UNCHANGED <<globals, fs, lastSaved, watch>>

\* answer_image_question: what it answers and what it records of the request.
AnswerEffect(t, has, image_url, question, out, track) ==
    /\ Free(t)
    /\ LET image_path == AnswerPath(image_url)
           mine == [Idle EXCEPT !.image = image_url, !.question = question,
                                !.path = image_path]
           call == answer_question_pipeline(image_path, question, fs, globals, out)
           resp == IF MissingAnswerInput(has) THEN NoInputResponse
                   ELSE IF "use_pipeline" \notin globals THEN Fault("NameError")
                   ELSE IF call.raised THEN Fault(call.failure)
                   ELSE [status |-> 200, body |-> [answer |-> call.value]]
           called == ~MissingAnswerInput(has) /\ "use_pipeline" \in globals
       IN  /\ th' = Done(t, "answer", has, IF MissingAnswerInput(has) THEN Idle ELSE mine,
                         IF called THEN call ELSE NoCall, resp)
           /\ watch' = IF track /\ ~watch.set /\ resp.status = 200
                       THEN [set |-> TRUE, image |-> image_url, question |-> question,
                             answer |-> resp.body.answer]
                       ELSE watch

\* An answer handler that rebinds a module-level name it reads.
AnswerReqUnbinding(t, has, image_url, question, out, track) ==
    /\ AnswerEffect(t, has, image_url, question, out, track)
    /\ globals' = globals \ {"use_pipeline"}
    /\ UNCHANGED <<fs, lastSaved>>

\* An answer handler that deletes the image once it has answered.
AnswerReqRemoving(t, has, image_url, question, out, track) ==
    /\ AnswerEffect(t, has, image_url, question, out, track)
    /\ fs' = [p \in DOMAIN fs \ {AnswerPath(image_url)} |-> fs[p]]
    /\ UNCHANGED <<globals, lastSaved>>

AnswerReq(t, has, image_url, question, out, track) ==
    /\ AnswerEffect(t, has, image_url, question, out, track)
    /\ UNCHANGED <<globals, fs, lastSaved>>

\* index, about, contact, service, home: a template is rendered.
PageReq(t) ==
    /\ Free(t)
    /\ th' = Done(t, "page", {}, Idle, NoCall, [status |-> 200, body |-> [page |-> TRUE]])
    /\ UNCHANGED <<globals, fs, lastSaved, watch>>

\* serve_static_files for a path under static/uploads.
StaticReq(t, path) ==
    /\ Free(t)
    /\ th' = Done(t, "static", {}, [Idle EXCEPT !.path = path], NoCall,
                  IF path \in DOMAIN fs
                  THEN [status |-> 200, body |-> [file |-> TRUE]]
                  ELSE [status |-> 404, body |-> [error |-> "Not Found"]])
    /\ UNCHANGED <<globals, fs, lastSaved, watch>>

\* The response is sent; the thread serves the next request.
Return(t) ==
    /\ th[t].pc = "done"
    /\ th' = [th EXCEPT ![t] = Idle]
    /\ UNCHANGED <<globals, fs, lastSaved, watch>>

\* --------------------------------------------------------- specifications
\* Concurrent requests; clients' file names all sanitize to "a" or to "".
RaceNames == {<<"a">>, <<"/", "a">>, <<".", ".">>, <<>>}

RaceImages == {UploadUrl(<<"a">>), UploadUrl(<<>>)}

Next ==
    \E t \in Threads :
        \/ UploadStart(t, {}, <<>>, <<>>)
        \/ \E o \in RaceNames, d \in DataSet : UploadStart(t, {"image"}, o, d)
        \/ UploadWrite(t)
        \/ \E out \in CaptionOutcomes : UploadCaption(t, out)
        \/ \E has \in SUBSET {"image", "question"}, u \in RaceImages, q \in Questions,
              out \in VqaOutcomes :
                AnswerReq(t, has, u, q, out, FALSE)
        \/ PageReq(t)
        \/ StaticReq(t, path_join(UPLOAD_FOLDER, <<"a">>))
        \/ Return(t)

Spec == Init /\ [][Next]_vars

\* One request at a time, any file name a client can send; the upload
\* directory holds at most MaxFiles files.
HasRoom(orig) ==
    \/ path_join(UPLOAD_FOLDER, Sanitized[orig]) \in DOMAIN fs
    \/ Cardinality(DOMAIN fs) < MaxFiles

SanitizedNames == {Sanitized[o] : o \in OrigNames}

SeqImages == {UploadUrl(n) : n \in SanitizedNames} \cup {<<"a">>, <<".", ".">>}

NextSeq ==
    \/ UploadStart(1, {}, <<>>, <<>>)
    \/ \E o \in OrigNames, d \in DataSet :
            Free(1) /\ HasRoom(o) /\ UploadStart(1, {"image"}, o, d)
    \/ UploadWrite(1)
    \/ \E out \in CaptionOutcomes : UploadCaption(1, out)
    \/ \E has \in SUBSET {"image", "question"}, u \in SeqImages, q \in Questions,
          out \in VqaOutcomes :
            AnswerReq(1, has, u, q, out, FALSE)
    \/ PageReq(1)
    \/ \E n \in SanitizedNames : StaticReq(1, path_join(UPLOAD_FOLDER, n))
    \/ Return(1)

SpecSeq == Init /\ [][NextSeq]_vars

\* One request at a time, file names as in Next; one /answer submission that
\* was answered is remembered.
NextRepeat ==
    \/ UploadStart(1, {}, <<>>, <<>>)
    \/ \E o \in RaceNames, d \in DataSet : UploadStart(1, {"image"}, o, d)
    \/ UploadWrite(1)
    \/ \E out \in CaptionOutcomes : UploadCaption(1, out)
    \/ \E has \in SUBSET {"image", "question"}, u \in RaceImages \cup {<<"b">>},
          q \in Questions, out \in VqaOutcomes, track \in BOOLEAN :
            AnswerReq(1, has, u, q, out, track)
    \/ PageReq(1)
    \/ StaticReq(1, path_join(UPLOAD_FOLDER, <<"a">>))
    \/ Return(1)

SpecRepeat == Init /\ [][NextRepeat]_vars

\* ----------------------------------------------------------------- claims
Responded(t, kind) == th[t].pc = "done" /\ th[t].kind = kind

Begins(t, kind) == th[t].pc = "idle" /\ th'[t].pc = "done" /\ th'[t].kind = kind

\* C1: every POST /upload with the field image responds 200 with image_url
\* and caption, every one without it responds 400 {"error": "No image
\* uploaded"}, and no upload ends otherwise, whatever the file name.
C1_UploadOutcomes ==
    \A t \in Threads :
        Responded(t, "upload") =>
            IF "image" \in th[t].has
            THEN /\ th[t].resp.status = 200
                 /\ DOMAIN th[t].resp.body = {"image_url", "caption"}
            ELSE th[t].resp = NoImageResponse

\* C2: after a startup in which a load failed, every /answer with both fields
\* responds 200 with 'Error answering question.' and every upload that is
\* stored responds 200, with 'Error generating caption.' when the caption
\* handles are unset; none ends in an unhandled fault.
C2_DegradedSentinel ==
    globals # AllGlobals =>
        \A t \in Threads :
            /\ (Responded(t, "answer") /\ th[t].has = {"image", "question"}) =>
                    /\ th[t].resp.status = 200
                    /\ th[t].resp.body.answer = ErrAnswer
            /\ (Responded(t, "upload") /\ "image" \in th[t].has /\ th[t].filename # <<>>) =>
                    /\ th[t].resp.status = 200
                    /\ ("caption_processor" \notin globals =>
                            th[t].resp.body.caption = ErrCaption)

\* C3: for every upload that is stored and answered, the part of image_url
\* after its last '/' is the storage file name and /answer's path for that
\* image_url is the path the upload wrote; and an /answer that is passed the
\* URL of a storage name opens UPLOAD_FOLDER joined with that name.
C3_RoundTrip ==
    \A t \in Threads :
        /\ (Responded(t, "upload") /\ th[t].resp.status = 200) =>
                /\ LastSegment(th[t].resp.body.image_url) = th[t].filename
                /\ AnswerPath(th[t].resp.body.image_url) = th[t].path
                /\ th[t].path \in DOMAIN lastSaved
        /\ (Responded(t, "answer") /\ th[t].has = {"image", "question"}) =>
                \A n \in SanitizedNames :
                    th[t].image = UploadUrl(n) => th[t].path = path_join(UPLOAD_FOLDER, n)

\* C3 witness: an upload whose name was changed by sanitization was stored
\* and its URL returned.
C3_Witness ==
    \E t \in Threads :
        /\ Responded(t, "upload") /\ th[t].resp.status = 200
        /\ th[t].filename = <<"a", "_", "a">>

\* C4: generate_caption and answer_question_pipeline never raise to the
\* handler; whenever anything fails inside them they return exactly their
\* sentinel string.
C4_HelpersNeverRaise ==
    \A t \in Threads :
        th[t].call.made =>
            /\ ~th[t].call.raised
            /\ th[t].call.failure # "none" =>
                    th[t].call.value = IF th[t].kind = "upload" THEN ErrCaption ELSE ErrAnswer

\* C4 witness: an uploaded file that is no image was passed to
\* generate_caption, and a missing file to answer_question_pipeline is
\* covered by the same formula.
C4_Witness ==
    \E t \in Threads :
        /\ Responded(t, "upload")
        /\ th[t].call.made /\ th[t].call.failure = "UnidentifiedImageError"

\* C5: a POST /answer that lacks image or question responds 400 {"error": "No
\* image or question provided"}, invokes no model and changes neither the
\* upload directory nor the model handles.
C5_AnswerMissingInput ==
    [][\A t \in Threads :
        (Begins(t, "answer") /\ th'[t].has # {"image", "question"}) =>
            /\ th'[t].resp = NoInputResponse
            /\ ~th'[t].call.made
            /\ th'[t].call.invoked = {}
            /\ fs' = fs
            /\ globals' = globals]_vars

\* C5 witness: an /answer with an image but no question was refused while a
\* file was stored.
C5_Witness ==
    \E t \in Threads :
        /\ Responded(t, "answer") /\ th[t].has = {"image"}
        /\ th[t].resp.status = 400
        /\ DOMAIN lastSaved # {}

\* C6: a POST /upload without the field image responds 400 {"error": "No image
\* uploaded"}, writes or changes no file and does not invoke the caption model.
C6_UploadMissingImage ==
    [][\A t \in Threads :
        (Begins(t, "upload") /\ "image" \notin th'[t].has) =>
            /\ th'[t].resp = NoImageResponse
            /\ ~th'[t].call.made
            /\ th'[t].call.invoked = {}
            /\ fs' = fs]_vars

\* C6 witness: an upload without image was refused while a file was stored.
C6_Witness ==
    \E t \in Threads :
        /\ Responded(t, "upload") /\ th[t].has = {}
        /\ th[t].resp.status = 400
        /\ DOMAIN lastSaved # {}

\* C7: once an /answer with some image reference and question has responded
\* 200, every later /answer with the same image reference and question
\* responds 200 with an answer string too, whatever was requested in between.
C7_RepeatAnswers ==
    [][\A t \in Threads :
        (/\ Begins(t, "answer") /\ th'[t].has = {"image", "question"}
         /\ watch.set
         /\ th'[t].image = watch.image /\ th'[t].question = watch.question) =>
            /\ th'[t].resp.status = 200
            /\ DOMAIN th'[t].resp.body = {"answer"}]_vars

\* C7 witness: the same submission was answered a second time, with another
\* answer than the first time.
C7_Witness ==
    \E t \in Threads :
        /\ Responded(t, "answer") /\ th[t].has = {"image", "question"}
        /\ watch.set
        /\ th[t].image = watch.image /\ th[t].question = watch.question
        /\ th[t].resp.status = 200
        /\ th[t].resp.body.answer # watch.answer

\* C8 as stated: once an upload has stored a file, no later step of any
\* request changes its bytes or removes it.
C8_Immutable ==
    [][\A p \in DOMAIN lastSaved : p \in DOMAIN fs' /\ fs'[p] = fs[p]]_vars

\* C8 amended: a stored file is never removed, and its bytes change only in a
\* step of an upload request that saves under the same storage file name; no
\* answer, static or page request changes them.
C8_ChangedOnlyBySameNameUpload ==
    [][\A p \in DOMAIN lastSaved :
        /\ p \in DOMAIN fs'
        /\ fs'[p] # fs[p] =>
              \E t \in Threads :
                  /\ th'[t] # th[t]
                  /\ th'[t].kind = "upload"
                  /\ th'[t].pc \in {"save", "caption"}
                  /\ th'[t].path = p]_vars

\* C8 witness: a stored file was read by a later /answer request and still
\* holds what was stored.
C8_Witness ==
    \E p \in DOMAIN lastSaved, t \in Threads :
        /\ Responded(t, "answer") /\ th[t].call.made
        /\ th[t].path = p
        /\ fs[p] = lastSaved[p]

Saving(p) == \E t \in Threads : th[t].pc = "save" /\ th[t].path = p

\* C9: when uploads of the same sanitized file name have completed, the one
\* file under that name holds the content of the upload whose save ran last.
C9_LastWriterWins ==
    \A p \in DOMAIN lastSaved : ~Saving(p) => fs[p] = lastSaved[p]

\* C10: the caption an upload returns is computed from the bytes that same
\* request saved: the result of its generate_caption call is one that the
\* call gives on a file holding the data this request wrote.
C10_CaptionOfOwnBytes ==
    [][\A t \in Threads :
        (th[t].pc = "caption" /\ th'[t].pc = "done") =>
            \E out \in CaptionOutcomes :
                th'[t].call = generate_caption(th[t].path,
                                               [fs EXCEPT ![th[t].path] = th[t].data],
                                               globals, out)]_vars

====
